---- MODULE Spec2Model ----
(***************************************************************************)
(* Order-parsing agent: the fetch -> parse -> validate pipeline of         *)
(* agent.py, the LLM-as-judge validator of validation.py, the dead-letter  *)
(* queue of schemas.py and the command-line entry point of main.py.        *)
(*                                                                         *)
(* A raw record is identified by the order id it carries ("Order <id>:"),  *)
(* a parsed order by its orderId.  Optional[str] values are sequences:     *)
(* <<>> is None and <<s>> is the string s, so that None and the empty      *)
(* string stay different values, as they are in Python.                    *)
(***************************************************************************)
EXTENDS Integers, Sequences, FiniteSets, TLC

\* ---------------------------------------------------------------- bounds
MaxRaw == 3          \* the fetch returns 0..MaxRaw raw records
MaxRetries == 3      \* max_retries is drawn from 0..MaxRetries

\* the configurations a run is started with: the two concurrency limits
\* (a stage has at most two chunks here, so a limit of 1 is the one that
\* binds) and the base delay of the backoff, in units of time
Configs ==
    {[parse_limit |-> 1, validate_limit |-> 2, base_delay |-> 1],
     [parse_limit |-> 2, validate_limit |-> 1, base_delay |-> 3]}

\* config.CHUNK_SIZE, the number of records of a chunk
CHUNK_SIZE == 2

\* a dead-letter queue on its own: add_batch_failure is called with 0..MaxBatchLen
\* raw records, at most MaxBatches times; at most MaxRecords records are added
MaxBatchLen == 5
MaxBatches == 2
MaxRecords == 3

\* parse_batch and validate_schema on their own: an "orders" list has at most
\* MaxElems elements
MaxElems == 2

VARIABLES
    pc,             \* position of the run: fetch, parse, parse_gather, validate,
                    \* validate_gather, finalize, main, raised, done
    max_retries,    \* config.MAX_RETRIES of this run
    base_delay,     \* config.RETRY_BASE_DELAY of this run
    parse_limit,    \* config.PARSE_CONCURRENCY of this run
    validate_limit, \* config.VALIDATE_CONCURRENCY of this run
    error,          \* AgentState["error"]
    raw_store,      \* AgentState["raw_store"]: None or <<list of raw records>>
    parsed_orders,  \* AgentState["parsed_orders"]
    valid_orders,   \* AgentState["valid_orders"]
    dlq,            \* AgentState["dlq"]: [failed_batches, failed_records]
    parse_sem,      \* value of the parse stage's asyncio.Semaphore
    validate_sem,   \* value of the validate stage's asyncio.Semaphore
    ptask,          \* the parse_batch_with_retry coroutines, by chunk index
    vtask,          \* the validate_batch coroutines, by chunk index
    fetch_calls,    \* number of calls of the fetch collaborator
    fetch_outcome,  \* how that call ended: "none", "ok", "api_error", "other_error"
    result,         \* the AgentResult of run_agent_async, None before
    exit_code,      \* process exit status of main, -1 while running
    out_stream,     \* what main wrote: "none", "stdout:result", "stderr:error"
    sc_in,          \* the outcome of a model call, given to parse_batch alone
    sc_out,         \* None, or what parse_batch or validate_schema made of it
    dq,             \* a DeadLetterQueue object under a sequence of appends
    dq_log          \* the orders passed to dq's appends so far, counted as they
                    \* were passed in, the last total_failures read from dq,
                    \* and whether the last add_record_failure call raised

vars == <<pc, max_retries, base_delay, parse_limit, validate_limit, error,
          raw_store, parsed_orders, valid_orders, dlq, parse_sem, validate_sem,
          ptask, vtask, fetch_calls, fetch_outcome, result, exit_code, out_stream,
          sc_in, sc_out, dq, dq_log>>

\* the variables of the function-level specifications, idle during a run
unit == <<sc_in, sc_out, dq, dq_log>>

\* ------------------------------------------------------------ Optional[str]
None == <<>>
Some(s) == <<s>>
\* Python truthiness of an Optional[str]: None and "" are falsy
Truthy(e) == e # None /\ e[1] # ""

\* ------------------------------------------------------------ helpers
Min(a, b) == IF a < b THEN a ELSE b

RECURSIVE Pow2(_)
Pow2(n) == IF n <= 0 THEN 1 ELSE 2 * Pow2(n - 1)

RECURSIVE SumSeq(_)
SumSeq(s) == IF s = <<>> THEN 0 ELSE Head(s) + SumSeq(Tail(s))

Range(s) == {s[k] : k \in 1..Len(s)}

\* Python slice s[start:end] (0-based, end exclusive, clipped to the list)
Slice(s, start, end) ==
    LET lo == Min(start, Len(s))
        hi == Min(end, Len(s))
    IN  [k \in 1..(hi - lo) |-> s[lo + k]]

\* ------------------------------------------------------------ schemas.py
\* the count rounded down: a last, shorter batch is not counted
total_batches_floor(orders, batch_size) == Len(orders) \div batch_size

\* RawOrderStore.total_batches
total_batches(orders, batch_size) == (Len(orders) + batch_size - 1) \div batch_size

\* RawOrderStore.get_batch
get_batch(orders, batch_index, batch_size) ==
    Slice(orders, batch_index * batch_size, batch_index * batch_size + batch_size)

\* DeadLetterQueue()
EmptyDLQ == [failed_batches |-> <<>>, failed_records |-> <<>>]

\* FailedBatch(...)
FailedBatch(batch_index, raw_orders, err, attempts) ==
    [batch_index |-> batch_index, raw_orders |-> raw_orders,
     error |-> err, attempts |-> attempts]

\* the entry numbered by its place in the queue
add_batch_failure_by_position(q, batch_index, raw_orders, err, attempts) ==
    [q EXCEPT !.failed_batches =
        Append(@, FailedBatch(Len(q.failed_batches), raw_orders, err, attempts))]

\* DeadLetterQueue.add_batch_failure
add_batch_failure(q, batch_index, raw_orders, err, attempts) ==
    [q EXCEPT !.failed_batches =
        Append(@, FailedBatch(batch_index, raw_orders, err, attempts))]

\* FailedRecord(...)
FailedRecord(orderId, failureType, reason) ==
    [orderId |-> orderId, failureType |-> failureType, reason |-> reason]

\* the batches counted, not their orders
total_failures_per_batch(q) == Len(q.failed_batches) + Len(q.failed_records)

\* DeadLetterQueue.total_failures
total_failures(q) ==
    SumSeq([k \in 1..Len(q.failed_batches) |-> Len(q.failed_batches[k].raw_orders)])
        + Len(q.failed_records)

\* the failureType values FailedRecord accepts
FailureTypes == {"mismatch", "hallucinated"}

\* DeadLetterQueue.add_record_failure: FailedRecord(...) raises on a
\* failure_type it does not accept, and nothing is appended
add_record_failure(q, failure_type, reason, order_id) ==
    IF failure_type \notin FailureTypes
    THEN [raised |-> TRUE, q |-> q]
    ELSE [raised |-> FALSE,
          q |-> [q EXCEPT !.failed_records =
                    Append(@, FailedRecord(order_id, failure_type, reason))]]

\* nothing appended, nothing read
NoLog == [added |-> 0, read |-> 0, read_added |-> 0, raised |-> FALSE]

\* ------------------------------------------------------------ the model (LLM)
\* What one awaited llm.ainvoke gives: an exception with its message, or a
\* response whose content is text that is not JSON (t = "notjson"), a JSON
\* object with its lists (t = "object"), a JSON object without an "orders" key
\* or with one that is no list, or a JSON array.
NotJson == [t |-> "notjson", orders |-> <<>>, valid |-> {}, invalid |-> <<>>]
ParseObject(orders) == [t |-> "object", orders |-> orders, valid |-> {}, invalid |-> <<>>]
JudgeObject(valid, invalid) ==
    [t |-> "object", orders |-> <<>>, valid |-> valid, invalid |-> invalid]
JsonArray == [t |-> "array", orders |-> <<>>, valid |-> {}, invalid |-> <<>>]

Raises(msg) == [raises |-> TRUE, msg |-> msg, content |-> NotJson]
Responds(content) == [raises |-> FALSE, msg |-> "", content |-> content]
NoOutcome == [raises |-> FALSE, msg |-> "-", content |-> NotJson]

\* messages of the exceptions a model call ends with; str(asyncio.TimeoutError())
\* is the empty string
ExceptionMessages == {"boom", ""}

\* An element of the "orders" list.  dict: it is a JSON object (else a string,
\* a number or null); orderId with id_form: the id is the string of the digits
\* of orderId ("digits"), the empty string, a string of letters, or a JSON
\* number; state: the characters of the string; total: in cents; items: the
\* ratings of the items, in tenths; returned: the flag.  Candidate(id) is what
\* raw record id says: "Order <id>: ..., OH, Total=$5.00, ..., Returned=No".
Candidate(id) ==
    [dict |-> TRUE, orderId |-> id, id_form |-> "digits", state |-> <<"O", "H">>,
     total |-> 500, items |-> <<30>>, returned |-> FALSE]

\* Order.model_validate(e) succeeds: e is a mapping, orderId is a str (pydantic
\* does not coerce a number), state has two characters, total > 0 and every
\* rating is within 1.0 .. 5.0; nothing else is constrained
order_model_validate(e) ==
    /\ e.dict
    /\ e.id_form # "number"
    /\ Len(e.state) = 2
    /\ e.total > 0
    /\ \A k \in 1..Len(e.items) : e.items[k] >= 10 /\ e.items[k] <= 50

\* the element the model gives for record id: a well-formed order, or one
\* whose total is 0
Elem(id, conforms) ==
    IF conforms THEN Candidate(id) ELSE [Candidate(id) EXCEPT !.total = 0]

\* the responses of the parsing model to a chunk: every record parsed, none
\* matching the query, only the first, the first one violating the schema
ParseContents(chunk) ==
    {NotJson,
     ParseObject([k \in 1..Len(chunk) |-> Elem(chunk[k], TRUE)]),
     ParseObject(<<>>),
     ParseObject(<<Elem(chunk[1], TRUE)>>),
     ParseObject([k \in 1..Len(chunk) |-> Elem(chunk[k], k # 1)])}

ParseOutcomes(chunk) ==
    {Raises(m) : m \in ExceptionMessages} \cup {Responds(c) : c \in ParseContents(chunk)}

\* ------------------------------------------------------------ validation.py
\* parse_json_response: None (<<>>) when json.loads fails, else the data
parse_json_response(content) ==
    IF content.t = "notjson" THEN <<>> ELSE <<content>>

NOT_A_LIST == "'orders' field is not a list"
LIST_HAS_NO_GET == "'list' object has no attribute 'get'"
STR_HAS_NO_GET == "'str' object has no attribute 'get'"

\* validate_schema: the Orders built from the conforming elements, in order,
\* and one message per other element ("Order <id>: ...", kept as the id).
\* data.get on a JSON array raises; so does order_data.get, in the except
\* handler, on an element that is no mapping: raised with msg = str(e).
validate_schema(data) ==
    IF data.t = "array"
    THEN [raised |-> TRUE, msg |-> LIST_HAS_NO_GET, orders |-> <<>>, errors |-> <<>>]
    ELSE IF data.t = "object_orders_notlist"
    THEN [raised |-> FALSE, msg |-> "", orders |-> <<>>, errors |-> <<NOT_A_LIST>>]
    ELSE LET orders_data == IF data.t = "object_no_orders" THEN <<>> ELSE data.orders
             bad == SelectSeq(orders_data, LAMBDA e : ~order_model_validate(e))
         IN  IF \E k \in 1..Len(bad) : ~bad[k].dict
             THEN [raised |-> TRUE, msg |-> STR_HAS_NO_GET,
                   orders |-> <<>>, errors |-> <<>>]
             ELSE [raised |-> FALSE, msg |-> "",
                   orders |-> SelectSeq(orders_data, order_model_validate),
                   errors |-> [k \in 1..Len(bad) |-> bad[k].orderId]]

\* the orderIds of a list of orders: a parsed order of a run is identified by
\* its orderId
OrderIds(orders) == [k \in 1..Len(orders) |-> orders[k].orderId]

\* ------------------------------------------------------------ agent.py: parse
JSON_ERROR == "Failed to parse LLM response as JSON"

\* the handler catching what the model call raises, not what the code after
\* it raises
parse_batch_narrow_except(outcome) ==
    IF outcome.raises
    THEN [raised |-> FALSE, orders |-> <<>>, error |-> Some(outcome.msg)]
    ELSE LET data == parse_json_response(outcome.content)
         IN  IF data = <<>>
             THEN [raised |-> FALSE, orders |-> <<>>, error |-> Some(JSON_ERROR)]
             ELSE LET v == validate_schema(data[1])
                  IN  IF v.raised
                      THEN [raised |-> TRUE, orders |-> <<>>, error |-> None]
                      ELSE [raised |-> FALSE, orders |-> OrderIds(v.orders),
                            error |-> None]

\* parse_batch, from the end of the model call on: (orders, error), and
\* whether an exception leaves the function.  "except Exception" encloses the
\* call, parse_json_response and validate_schema.
parse_batch(outcome) ==
    IF outcome.raises
    THEN [raised |-> FALSE, orders |-> <<>>, error |-> Some(outcome.msg)]
    ELSE LET data == parse_json_response(outcome.content)
         IN  IF data = <<>>
             THEN [raised |-> FALSE, orders |-> <<>>, error |-> Some(JSON_ERROR)]
             ELSE LET v == validate_schema(data[1])
                  IN  IF v.raised
                      THEN [raised |-> FALSE, orders |-> <<>>, error |-> Some(v.msg)]
                      ELSE [raised |-> FALSE, orders |-> OrderIds(v.orders),
                            error |-> None]

\* the number of tasks of a gather that have returned
Returned(tasks) == Cardinality({i \in DOMAIN tasks : tasks[i].pc = "done"})

\* a gate that lets every caller in
can_acquire_always(sem) == TRUE

\* asyncio.Semaphore: a permit can be taken when the value is positive
can_acquire(sem) == sem > 0

\* the permit kept until the retry loop is over
parse_batch_exit_keep(t) == t

\* leaving "async with semaphore" gives the permit back
parse_batch_exit(t) == [t EXCEPT !.holds = FALSE]

\* the exponent taken from the attempt number itself
backoff_delay_off_by_one(base, attempt) == base * Pow2(attempt)

\* delay = base_delay * (2 ** (attempt - 1))
backoff_delay(base, attempt) == base * Pow2(attempt - 1)

\* a parse_batch_with_retry coroutine at its start
NewParseTask(maxr) ==
    [pc |-> IF maxr >= 1 THEN "ready" ELSE "done",
     attempt |-> 1, last_error |-> None, holds |-> FALSE,
     calls |-> 0, sleeps |-> <<>>, outcome |-> NoOutcome,
     orders |-> <<>>, error |-> None, attempts |-> IF maxr >= 1 THEN 0 ELSE maxr,
     after |-> 0]

\* the retry loop remembering the first error instead of the last one
retry_step_first_error(t, r, maxr, base) ==
    LET kept == IF t.last_error = None THEN r.error ELSE t.last_error
    IN  IF r.error = None
        THEN [t EXCEPT !.pc = "done", !.orders = r.orders, !.error = None,
                       !.attempts = t.attempt, !.last_error = None]
        ELSE IF t.attempt < maxr
             THEN [t EXCEPT !.pc = "sleeping", !.last_error = kept,
                            !.sleeps = Append(@, base * Pow2(t.attempt - 1))]
             ELSE [t EXCEPT !.pc = "done", !.orders = <<>>, !.error = kept,
                            !.attempts = maxr, !.last_error = None]

\* parse_batch_with_retry, one pass of the loop body after parse_batch returned
\* r.  A coroutine that returned keeps its result (orders, error, attempts);
\* its local last_error is gone with its frame.
retry_step(t, r, maxr, base) ==
    IF r.error = None
    THEN [t EXCEPT !.pc = "done", !.orders = r.orders, !.error = None,
                   !.attempts = t.attempt, !.last_error = None]
    ELSE IF t.attempt < maxr
         THEN [t EXCEPT !.pc = "sleeping", !.last_error = r.error,
                        !.sleeps = Append(@, backoff_delay(base, t.attempt))]
         ELSE [t EXCEPT !.pc = "done", !.orders = <<>>, !.error = r.error,
                        !.attempts = maxr, !.last_error = None]

\* the merge given up at the first failed batch
RECURSIVE merge_parse_abort(_, _, _, _)
merge_parse_abort(i, tasks, raw, acc) ==
    IF i \notin DOMAIN tasks THEN acc
    ELSE IF Truthy(tasks[i].error)
         THEN [acc EXCEPT !.dlq = add_batch_failure(@, i,
                                     get_batch(raw, i, CHUNK_SIZE),
                                     tasks[i].error[1], tasks[i].attempts)]
         ELSE merge_parse_abort(i + 1, tasks, raw,
                                [acc EXCEPT !.all_orders = @ \o tasks[i].orders])

RECURSIVE merge_parse(_, _, _, _)
\* parse_node after gather: results in index order, failures to the queue
merge_parse(i, tasks, raw, acc) ==
    IF i \notin DOMAIN tasks THEN acc
    ELSE merge_parse(i + 1, tasks, raw,
            IF Truthy(tasks[i].error)
            THEN [acc EXCEPT !.dlq = add_batch_failure(@, i,
                                        get_batch(raw, i, CHUNK_SIZE),
                                        tasks[i].error[1], tasks[i].attempts)]
            ELSE [acc EXCEPT !.all_orders = @ \o tasks[i].orders])

\* ------------------------------------------------------------ validation.py: judge
UNPARSEABLE == "Validation response unparseable"

Item(id, failureType, reason) ==
    [orderId |-> id, failureType |-> failureType, reason |-> reason]

\* ascending sequence of the members of a set of order ids
RECURSIVE SortedSeq(_)
SortedSeq(S) ==
    IF S = {} THEN <<>>
    ELSE LET m == CHOOSE x \in S : \A y \in S : x <= y
         IN  <<m>> \o SortedSeq(S \ {m})

\* the judge's responses to a chunk: any ids of the chunk under "valid" and any
\* under "invalid" (so an id can be under both, or under neither), or no JSON,
\* or JSON that is a list, or an invalid entry of a failureType of its own, or
\* the whole chunk under "valid" with an order 0 that nobody parsed
JudgeContents(chunk) ==
    {NotJson, JsonArray,
     JudgeObject({}, <<Item(chunk[1], "dropped", "missing from output")>>),
     JudgeObject(Range(chunk) \cup {0}, <<>>)} \cup
    {JudgeObject(V, [k \in 1..Len(SortedSeq(W)) |->
                        Item(SortedSeq(W)[k], "mismatch", "total differs")]) :
        V \in SUBSET Range(chunk), W \in SUBSET Range(chunk)}

JudgeOutcomes(chunk) ==
    {Raises("boom")} \cup {Responds(c) : c \in JudgeContents(chunk)}

\* the valid orders taken from the judge's list instead of the parsed chunk
read_partition_from_judge(data, parsed) ==
    IF data.t = "array"
       \/ \E k \in 1..Len(data.invalid) : data.invalid[k].failureType \notin FailureTypes
    THEN [raised |-> TRUE, valid |-> <<>>, failed |-> <<>>]
    ELSE [raised |-> FALSE,
          valid |-> SortedSeq(data.valid),
          failed |-> [k \in 1..Len(data.invalid) |->
                        FailedRecord(data.invalid[k].orderId,
                                     data.invalid[k].failureType,
                                     data.invalid[k].reason)]]

\* the partition read from a JSON object: data.get on a list raises, and so
\* does FailedRecord(...) on a failureType it does not accept
read_partition(data, parsed) ==
    IF data.t = "array"
       \/ \E k \in 1..Len(data.invalid) : data.invalid[k].failureType \notin FailureTypes
    THEN [raised |-> TRUE, valid |-> <<>>, failed |-> <<>>]
    ELSE [raised |-> FALSE,
          valid |-> SelectSeq(parsed, LAMBDA o : o \in data.valid),
          failed |-> [k \in 1..Len(data.invalid) |->
                        FailedRecord(data.invalid[k].orderId,
                                     data.invalid[k].failureType,
                                     data.invalid[k].reason)]]

\* an unparseable response treated like a failed call: the chunk passes
parse_validation_response_lenient(content, parsed) ==
    LET data == parse_json_response(content)
    IN  IF data = <<>>
        THEN [raised |-> FALSE, valid |-> parsed, failed |-> <<>>]
        ELSE read_partition(data[1], parsed)

\* parse_validation_response: (valid order dicts, FailedRecords), or raised
parse_validation_response(content, parsed) ==
    LET data == parse_json_response(content)
    IN  IF data = <<>>
        THEN [raised |-> FALSE, valid |-> <<>>,
              failed |-> [k \in 1..Len(parsed) |->
                            FailedRecord(parsed[k], "mismatch", UNPARSEABLE)]]
        ELSE read_partition(data[1], parsed)

\* a failed judge call treated like an unparseable response: the chunk is
\* rejected
validate_batch_reject_on_raise(parsed, outcome) ==
    LET r == parse_validation_response(IF outcome.raises THEN NotJson
                                       ELSE outcome.content, parsed)
    IN  IF r.raised
        THEN [valid |-> parsed, failed |-> <<>>]
        ELSE [valid |-> r.valid, failed |-> r.failed]

\* validate_batch, from the end of the model call on.  The try block encloses
\* the call and parse_validation_response: whatever either raises ends in
\* "return parsed_orders, []".
validate_batch(parsed, outcome) ==
    IF outcome.raises
    THEN [valid |-> parsed, failed |-> <<>>]
    ELSE LET r == parse_validation_response(outcome.content, parsed)
         IN  IF r.raised
             THEN [valid |-> parsed, failed |-> <<>>]
             ELSE [valid |-> r.valid, failed |-> r.failed]

\* a validate_batch coroutine at its start ("if not parsed_orders: return [], []")
NewValidateTask(chunk) ==
    [pc |-> IF chunk = <<>> THEN "done" ELSE "ready", chunk |-> chunk,
     holds |-> FALSE, calls |-> 0, outcome |-> NoOutcome,
     valid |-> <<>>, failed |-> <<>>, after |-> 0]

\* the results taken in the order the tasks returned
RECURSIVE merge_validate_by_arrival(_, _, _)
merge_validate_by_arrival(j, tasks, acc) ==
    IF j \notin DOMAIN tasks THEN acc
    ELSE LET k == CHOOSE k \in DOMAIN tasks : tasks[k].after = j
         IN  merge_validate_by_arrival(j + 1, tasks,
                [all_valid |-> acc.all_valid \o tasks[k].valid,
                 dlq |-> [acc.dlq EXCEPT !.failed_records = @ \o tasks[k].failed]])

\* validate_node after gather: valid orders and failed records in index order
RECURSIVE merge_validate(_, _, _)
merge_validate(j, tasks, acc) ==
    IF j \notin DOMAIN tasks THEN acc
    ELSE merge_validate(j + 1, tasks,
            [all_valid |-> acc.all_valid \o tasks[j].valid,
             dlq |-> [acc.dlq EXCEPT !.failed_records = @ \o tasks[j].failed]])

\* QueryMeta of run_agent_async
QueryMeta(raw, parsed, valid, q) ==
    [total_raw |-> Len(raw), total_parsed |-> Len(parsed),
     total_valid |-> Len(valid), total_failed |-> total_failures(q)]

\* a run with nothing fetched counted as a run with no success
success_rate_zero_when_empty(meta) ==
    IF meta.total_raw = 0 THEN <<0, 1>> ELSE <<meta.total_valid, meta.total_raw>>

\* QueryMeta.success_rate, the float as the fraction <<numerator, denominator>>
success_rate(meta) ==
    IF meta.total_raw = 0 THEN <<1, 1>> ELSE <<meta.total_valid, meta.total_raw>>

NoTasks == [i \in {} |-> 0]
NoResult == <<>>

\* ------------------------------------------------------------ initial state
Init ==
    /\ pc = "fetch"
    /\ max_retries \in 0..MaxRetries
    /\ \E c \in Configs : /\ base_delay = c.base_delay
                          /\ parse_limit = c.parse_limit
                          /\ validate_limit = c.validate_limit
    /\ error = None
    /\ raw_store = None
    /\ parsed_orders = <<>>
    /\ valid_orders = <<>>
    /\ dlq = EmptyDLQ
    /\ parse_sem = 0
    /\ validate_sem = 0
    /\ ptask = NoTasks
    /\ vtask = NoTasks
    /\ fetch_calls = 0
    /\ fetch_outcome = "none"
    /\ result = NoResult
    /\ exit_code = -1
    /\ out_stream = "none"
    /\ sc_in = <<>>
    /\ sc_out = <<>>
    /\ dq = EmptyDLQ
    /\ dq_log = NoLog

cfg == <<max_retries, base_delay, parse_limit, validate_limit>>
fetched == <<fetch_calls, fetch_outcome>>

\* ------------------------------------------------------------ fetch_node
\* fetch_orders_async returned n raw records
FetchOk ==
    /\ pc = "fetch"
    /\ \E n \in 0..MaxRaw : raw_store' = Some([k \in 1..n |-> k])
    /\ fetch_calls' = fetch_calls + 1
    /\ fetch_outcome' = "ok"
    /\ pc' = "parse"
    /\ UNCHANGED <<cfg, unit, error, parsed_orders, valid_orders, dlq, parse_sem,
                   validate_sem, ptask, vtask, result, exit_code, out_stream>>

\* the fetch error swallowed: an empty raw store and no error flag
FetchAPIError_swallowed ==
    /\ pc = "fetch"
    /\ raw_store' = Some(<<>>)
    /\ fetch_calls' = fetch_calls + 1
    /\ fetch_outcome' = "api_error"
    /\ pc' = "parse"
    /\ UNCHANGED <<cfg, unit, error, parsed_orders, valid_orders, dlq, parse_sem,
                   validate_sem, ptask, vtask, result, exit_code, out_stream>>

\* fetch_orders_async raised APIError: caught, the error flag is set
FetchAPIError ==
    /\ pc = "fetch"
    /\ error' = Some("Request failed")
    /\ fetch_calls' = fetch_calls + 1
    /\ fetch_outcome' = "api_error"
    /\ pc' = "parse"
    /\ UNCHANGED <<cfg, unit, raw_store, parsed_orders, valid_orders, dlq, parse_sem,
                   validate_sem, ptask, vtask, result, exit_code, out_stream>>

\* fetch_orders_async raised something else (a body that is not JSON, ...):
\* "except APIError" does not catch it and it leaves the graph
FetchOtherError ==
    /\ pc = "fetch"
    /\ fetch_calls' = fetch_calls + 1
    /\ fetch_outcome' = "other_error"
    /\ pc' = "raised"
    /\ UNCHANGED <<cfg, unit, error, raw_store, parsed_orders, valid_orders, dlq,
                   parse_sem, validate_sem, ptask, vtask, result, exit_code,
                   out_stream>>

\* ------------------------------------------------------------ parse_node
\* the short-circuit handing on a state with the error flag cleared
ParseStart_clears_error ==
    /\ pc = "parse"
    /\ IF Truthy(error)
       THEN /\ parsed_orders' = <<>>
            /\ dlq' = EmptyDLQ
            /\ error' = None
            /\ pc' = "validate"
            /\ UNCHANGED <<parse_sem, ptask>>
       ELSE /\ parse_sem' = parse_limit
            /\ ptask' = [i \in 0..(total_batches(raw_store[1], CHUNK_SIZE) - 1) |->
                            NewParseTask(max_retries)]
            /\ pc' = "parse_gather"
            /\ UNCHANGED <<parsed_orders, dlq, error>>
    /\ UNCHANGED <<cfg, unit, raw_store, valid_orders, validate_sem, vtask,
                   fetched, result, exit_code, out_stream>>

\* up to the gather: short-circuit on the error flag, else one task per chunk
ParseStart ==
    /\ pc = "parse"
    /\ IF Truthy(error)
       THEN /\ parsed_orders' = <<>>
            /\ dlq' = EmptyDLQ
            /\ pc' = "validate"
            /\ UNCHANGED <<parse_sem, ptask>>
       ELSE /\ parse_sem' = parse_limit
            /\ ptask' = [i \in 0..(total_batches(raw_store[1], CHUNK_SIZE) - 1) |->
                            NewParseTask(max_retries)]
            /\ pc' = "parse_gather"
            /\ UNCHANGED <<parsed_orders, dlq>>
    /\ UNCHANGED <<cfg, unit, error, raw_store, valid_orders, validate_sem, vtask,
                   fetched, result, exit_code, out_stream>>

\* an attempt that asks the model twice
ParseAcquire_twice(i) ==
    /\ pc = "parse_gather"
    /\ ptask[i].pc = "ready"
    /\ can_acquire(parse_sem)
    /\ parse_sem' = parse_sem - 1
    /\ ptask' = [ptask EXCEPT ![i].pc = "invoking", ![i].holds = TRUE,
                              ![i].calls = @ + 2]
    /\ UNCHANGED <<pc, cfg, unit, error, raw_store, parsed_orders, valid_orders, dlq,
                   validate_sem, vtask, fetched, result, exit_code, out_stream>>

\* parse_batch: "async with semaphore" entered, llm.ainvoke issued
ParseAcquire(i) ==
    /\ pc = "parse_gather"
    /\ ptask[i].pc = "ready"
    /\ can_acquire(parse_sem)
    /\ parse_sem' = parse_sem - 1
    /\ ptask' = [ptask EXCEPT ![i].pc = "invoking", ![i].holds = TRUE,
                              ![i].calls = @ + 1]
    /\ UNCHANGED <<pc, cfg, unit, error, raw_store, parsed_orders, valid_orders, dlq,
                   validate_sem, vtask, fetched, result, exit_code, out_stream>>

\* the model call of attempt ptask[i].attempt ended; parse_batch returns and
\* parse_batch_with_retry returns, or starts its backoff sleep
ParseReturn(i) ==
    /\ pc = "parse_gather"
    /\ ptask[i].pc = "invoking"
    /\ \E o \in ParseOutcomes(get_batch(raw_store[1], i, CHUNK_SIZE)) :
         LET left == parse_batch_exit([ptask[i] EXCEPT !.outcome = o])
             next == retry_step(left, parse_batch(o), max_retries, base_delay)
         IN  /\ ptask' = [ptask EXCEPT ![i] =
                            IF next.pc = "done"
                            THEN [next EXCEPT !.after = Returned(ptask)]
                            ELSE next]
             /\ parse_sem' = IF left.holds THEN parse_sem ELSE parse_sem + 1
    /\ UNCHANGED <<pc, cfg, unit, error, raw_store, parsed_orders, valid_orders, dlq,
                   validate_sem, vtask, fetched, result, exit_code, out_stream>>

\* asyncio.sleep(delay) is over: the loop goes to its next attempt
ParseWake(i) ==
    /\ pc = "parse_gather"
    /\ ptask[i].pc = "sleeping"
    /\ ptask' = [ptask EXCEPT ![i].pc = "ready", ![i].attempt = @ + 1]
    /\ UNCHANGED <<pc, cfg, unit, error, raw_store, parsed_orders, valid_orders, dlq,
                   parse_sem, validate_sem, vtask, fetched, result, exit_code,
                   out_stream>>

\* a join that returns as soon as one task is done
gathered_first(tasks) == \E i \in DOMAIN tasks : tasks[i].pc = "done"

\* asyncio.gather returns once every task is done
gathered(tasks) == \A i \in DOMAIN tasks : tasks[i].pc = "done"

\* gather returned: merge in index order and return the state update
ParseMerge ==
    /\ pc = "parse_gather"
    /\ gathered(ptask)
    /\ LET m == merge_parse(0, ptask, raw_store[1],
                            [all_orders |-> <<>>, dlq |-> EmptyDLQ])
       IN  /\ parsed_orders' = m.all_orders
           /\ dlq' = m.dlq
    /\ pc' = "validate"
    /\ UNCHANGED <<cfg, unit, error, raw_store, valid_orders, parse_sem, validate_sem,
                   ptask, vtask, fetched, result, exit_code, out_stream>>

\* ------------------------------------------------------------ validate_node
\* up to the gather: short-circuits, else one validate_batch task per chunk
ValidateStart ==
    /\ pc = "validate"
    /\ IF Truthy(error) \/ parsed_orders = <<>>
       THEN /\ valid_orders' = <<>>
            /\ pc' = "finalize"
            /\ UNCHANGED <<validate_sem, vtask>>
       ELSE /\ validate_sem' = validate_limit
            /\ vtask' = [j \in 0..(((Len(parsed_orders) + CHUNK_SIZE - 1)
                                        \div CHUNK_SIZE) - 1) |->
                            NewValidateTask(Slice(parsed_orders, j * CHUNK_SIZE,
                                                  j * CHUNK_SIZE + CHUNK_SIZE))]
            /\ pc' = "validate_gather"
            /\ UNCHANGED valid_orders
    /\ UNCHANGED <<cfg, unit, error, raw_store, parsed_orders, dlq, parse_sem, ptask,
                   fetched, result, exit_code, out_stream>>

\* validate_batch: "async with semaphore" entered, llm.ainvoke issued
ValidateAcquire(j) ==
    /\ pc = "validate_gather"
    /\ vtask[j].pc = "ready"
    /\ can_acquire(validate_sem)
    /\ validate_sem' = validate_sem - 1
    /\ vtask' = [vtask EXCEPT ![j].pc = "invoking", ![j].holds = TRUE,
                              ![j].calls = @ + 1]
    /\ UNCHANGED <<pc, cfg, unit, error, raw_store, parsed_orders, valid_orders, dlq,
                   parse_sem, ptask, fetched, result, exit_code, out_stream>>

\* a judge call that raised tried once more
ValidateReturn_retry(j) ==
    /\ pc = "validate_gather"
    /\ vtask[j].pc = "invoking"
    /\ \E o \in JudgeOutcomes(vtask[j].chunk) :
         LET r == validate_batch(vtask[j].chunk, o)
         IN  vtask' = IF o.raises /\ vtask[j].calls < 2
                      THEN [vtask EXCEPT ![j].pc = "ready", ![j].holds = FALSE]
                      ELSE [vtask EXCEPT ![j].pc = "done", ![j].holds = FALSE,
                                         ![j].outcome = o, ![j].valid = r.valid,
                                         ![j].failed = r.failed,
                                         ![j].after = Returned(vtask)]
    /\ validate_sem' = validate_sem + 1
    /\ UNCHANGED <<pc, cfg, unit, error, raw_store, parsed_orders, valid_orders, dlq,
                   parse_sem, ptask, fetched, result, exit_code, out_stream>>

\* the judge call ended: validate_batch returns its partition
ValidateReturn(j) ==
    /\ pc = "validate_gather"
    /\ vtask[j].pc = "invoking"
    /\ \E o \in JudgeOutcomes(vtask[j].chunk) :
         LET r == validate_batch(vtask[j].chunk, o)
         IN  vtask' = [vtask EXCEPT ![j].pc = "done", ![j].holds = FALSE,
                                    ![j].outcome = o, ![j].valid = r.valid,
                                    ![j].failed = r.failed,
                                    ![j].after = Returned(vtask)]
    /\ validate_sem' = validate_sem + 1
    /\ UNCHANGED <<pc, cfg, unit, error, raw_store, parsed_orders, valid_orders, dlq,
                   parse_sem, ptask, fetched, result, exit_code, out_stream>>

\* the validate stage writing its failed records to a queue of its own
ValidateMerge_fresh ==
    /\ pc = "validate_gather"
    /\ gathered(vtask)
    /\ LET m == merge_validate(0, vtask, [all_valid |-> <<>>, dlq |-> EmptyDLQ])
       IN  /\ valid_orders' = m.all_valid
           /\ dlq' = m.dlq
    /\ pc' = "finalize"
    /\ UNCHANGED <<cfg, unit, error, raw_store, parsed_orders, parse_sem, validate_sem,
                   ptask, vtask, fetched, result, exit_code, out_stream>>

\* gather returned: merge in index order, the failed records appended to the
\* queue of the state, and return the state update
ValidateMerge ==
    /\ pc = "validate_gather"
    /\ gathered(vtask)
    /\ LET m == merge_validate(0, vtask, [all_valid |-> <<>>, dlq |-> dlq])
       IN  /\ valid_orders' = m.all_valid
           /\ dlq' = m.dlq
    /\ pc' = "finalize"
    /\ UNCHANGED <<cfg, unit, error, raw_store, parsed_orders, parse_sem, validate_sem,
                   ptask, vtask, fetched, result, exit_code, out_stream>>

\* ------------------------------------------------------------ run_agent_async
\* the graph returned its final state: build the AgentResult
Finalize ==
    /\ pc = "finalize"
    /\ LET raw == IF raw_store = None THEN <<>> ELSE raw_store[1]
       IN  result' = <<[raw_store |-> raw, valid_orders |-> valid_orders,
                        dlq |-> dlq,
                        meta |-> QueryMeta(raw, parsed_orders, valid_orders, dlq)]>>
    /\ pc' = "main"
    /\ UNCHANGED <<cfg, unit, error, raw_store, parsed_orders, valid_orders, dlq,
                   parse_sem, validate_sem, ptask, vtask, fetched, exit_code,
                   out_stream>>

\* ------------------------------------------------------------ main
\* run_agent returned: the response is printed and main returns
MainPrint ==
    /\ pc = "main"
    /\ out_stream' = "stdout:result"
    /\ exit_code' = 0
    /\ pc' = "done"
    /\ UNCHANGED <<cfg, unit, error, raw_store, parsed_orders, valid_orders, dlq,
                   parse_sem, validate_sem, ptask, vtask, fetched, result>>

\* run_agent raised: {"error": ...} goes to stderr and sys.exit(1)
MainExcept ==
    /\ pc = "raised"
    /\ out_stream' = "stderr:error"
    /\ exit_code' = 1
    /\ pc' = "done"
    /\ UNCHANGED <<cfg, unit, error, raw_store, parsed_orders, valid_orders, dlq,
                   parse_sem, validate_sem, ptask, vtask, fetched, result>>

Next ==
    \/ FetchOk
    \/ FetchAPIError
    \/ FetchOtherError
    \/ ParseStart
    \/ \E i \in DOMAIN ptask : ParseAcquire(i)
    \/ \E i \in DOMAIN ptask : ParseReturn(i)
    \/ \E i \in DOMAIN ptask : ParseWake(i)
    \/ ParseMerge
    \/ ValidateStart
    \/ \E j \in DOMAIN vtask : ValidateAcquire(j)
    \/ \E j \in DOMAIN vtask : ValidateReturn(j)
    \/ ValidateMerge
    \/ Finalize
    \/ MainPrint
    \/ MainExcept

Spec == Init /\ [][Next]_vars

\* the event loop runs a coroutine that can run, and a model invocation that
\* was issued returns or throws: a run never stops while a step is possible
FairSpec == Spec /\ WF_vars(Next)

\* ------------------------------------------------------------ DeadLetterQueue
\* the variables of a run, idle while an object or a function is exercised alone
pipe == <<pc, max_retries, base_delay, parse_limit, validate_limit, error,
          raw_store, parsed_orders, valid_orders, dlq, parse_sem, validate_sem,
          ptask, vtask, fetch_calls, fetch_outcome, result, exit_code, out_stream>>

PipelineIdle ==
    /\ pc = "idle"
    /\ max_retries = 0 /\ base_delay = 0 /\ parse_limit = 0 /\ validate_limit = 0
    /\ error = None /\ raw_store = None
    /\ parsed_orders = <<>> /\ valid_orders = <<>> /\ dlq = EmptyDLQ
    /\ parse_sem = 0 /\ validate_sem = 0
    /\ ptask = NoTasks /\ vtask = NoTasks
    /\ fetch_calls = 0 /\ fetch_outcome = "none"
    /\ result = NoResult /\ exit_code = -1 /\ out_stream = "none"

\* a new DeadLetterQueue()
DlqInit ==
    /\ PipelineIdle
    /\ sc_in = <<>> /\ sc_out = <<>>
    /\ dq = EmptyDLQ
    /\ dq_log = NoLog

\* dq.add_batch_failure(batch_index, raw_orders, error) with n raw records
DlqAddBatch ==
    /\ Len(dq.failed_batches) < MaxBatches
    /\ \E n \in 0..MaxBatchLen :
         /\ dq' = add_batch_failure(dq, Len(dq.failed_batches), [k \in 1..n |-> k],
                                    "boom", 1)
         /\ dq_log' = [dq_log EXCEPT !.added = @ + n, !.raised = FALSE]
    /\ UNCHANGED <<pipe, sc_in, sc_out>>

\* dq.add_record_failure(failure_type, reason, order_id)
DlqAddRecord ==
    /\ Len(dq.failed_records) < MaxRecords
    /\ \E ft \in {"mismatch", "hallucinated", "dropped"} :
         LET r == add_record_failure(dq, ft, "total differs", 1)
         IN  /\ dq' = r.q
             /\ dq_log' = IF r.raised
                          THEN [dq_log EXCEPT !.raised = TRUE]
                          ELSE [dq_log EXCEPT !.added = @ + 1, !.raised = FALSE]
    /\ UNCHANGED <<pipe, sc_in, sc_out>>

\* dq.failed_records.append(record), as validate_node does
DlqAppendRecord ==
    /\ Len(dq.failed_records) < MaxRecords
    /\ dq' = [dq EXCEPT !.failed_records =
                Append(@, FailedRecord(1, "mismatch", UNPARSEABLE))]
    /\ dq_log' = [dq_log EXCEPT !.added = @ + 1, !.raised = FALSE]
    /\ UNCHANGED <<pipe, sc_in, sc_out>>

\* dq.total_failures is read
DlqRead ==
    /\ dq_log' = [dq_log EXCEPT !.read = total_failures(dq), !.read_added = dq_log.added]
    /\ UNCHANGED <<pipe, sc_in, sc_out, dq>>

DlqNext == DlqAddBatch \/ DlqAddRecord \/ DlqAppendRecord \/ DlqRead

DlqSpec == DlqInit /\ [][DlqNext]_vars

\* ------------------------------------------------------------ parse_batch alone
\* what the model can put at place k of "orders": a well-formed order, a value
\* that is no object, and orders differing from the well-formed one in one field
Candidates(k) ==
    {Candidate(k), [Candidate(k) EXCEPT !.dict = FALSE]}
    \cup {[Candidate(k) EXCEPT !.id_form = f] : f \in {"empty", "letters", "number"}}
    \cup {[Candidate(k) EXCEPT !.state = st] :
            st \in {<<"o", "h">>, <<"O", "1">>, <<"O">>, <<"O", "H", "I", "O">>}}
    \cup {[Candidate(k) EXCEPT !.total = t] : t \in {0, -500, 501, 800}}
    \cup {[Candidate(k) EXCEPT !.returned = TRUE]}
    \cup {[Candidate(k) EXCEPT !.items = it] : it \in {<<>>, <<9>>, <<51>>, <<10, 50>>}}

\* the lists of n elements, the k-th from Candidates(k)
RECURSIVE CandidateLists(_)
CandidateLists(n) ==
    IF n = 0 THEN {<<>>}
    ELSE {Append(l, e) : l \in CandidateLists(n - 1), e \in Candidates(n)}

SchemaContents ==
    {NotJson, JsonArray,
     [t |-> "object_no_orders", orders |-> <<>>, valid |-> {}, invalid |-> <<>>],
     [t |-> "object_orders_notlist", orders |-> <<>>, valid |-> {}, invalid |-> <<>>]}
    \cup UNION {{ParseObject(l) : l \in CandidateLists(n)} : n \in 0..MaxElems}

SchemaInputs ==
    {Raises(m) : m \in ExceptionMessages} \cup {Responds(c) : c \in SchemaContents}

SchemaInit ==
    /\ PipelineIdle
    /\ sc_in \in SchemaInputs
    /\ sc_out = None
    /\ dq = EmptyDLQ
    /\ dq_log = NoLog

\* parse_batch is awaited and the model call ends as sc_in says
CallParseBatch ==
    /\ sc_out = None
    /\ sc_out' = <<[fn |-> "parse_batch", res |-> parse_batch(sc_in)]>>
    /\ UNCHANGED <<pipe, sc_in, dq, dq_log>>

\* validate_schema(data) is called with the JSON data of the response
CallValidateSchema ==
    /\ sc_out = None
    /\ ~sc_in.raises
    /\ parse_json_response(sc_in.content) # None
    /\ sc_out' = <<[fn |-> "validate_schema", res |-> validate_schema(sc_in.content)]>>
    /\ UNCHANGED <<pipe, sc_in, dq, dq_log>>

\* validate_batch is awaited with the Orders the response gives as its parsed
\* chunk (as dicts; an order is looked up by its orderId) and the judge call
\* ends in one of its outcomes
CallValidateBatch ==
    /\ sc_out = None
    /\ ~sc_in.raises
    /\ parse_json_response(sc_in.content) # None
    /\ LET v == validate_schema(sc_in.content)
       IN  /\ ~v.raised
           /\ v.orders # <<>>
           /\ \E o \in JudgeOutcomes(OrderIds(v.orders)) :
                LET r == validate_batch(OrderIds(v.orders), o)
                IN  sc_out' = <<[fn |-> "validate_batch",
                                 res |-> [parsed |-> v.orders, outcome |-> o,
                                          valid |-> SelectSeq(v.orders,
                                             LAMBDA x : x.orderId \in Range(r.valid)),
                                          failed |-> r.failed]]>>
    /\ UNCHANGED <<pipe, sc_in, dq, dq_log>>

SchemaNext == CallParseBatch \/ CallValidateSchema \/ CallValidateBatch

SchemaSpec == SchemaInit /\ [][SchemaNext]_vars

\* ------------------------------------------ the raw records shown to the judge
\* Texts are sequences of pieces: the word "Order " is one piece, every digit
\* and the colon are one piece each, the rest of a record is one piece.

\* order ids as the API prints them and as Order.orderId holds them: digit
\* strings, among them one that is a proper prefix and one that is a proper
\* suffix of another
OrderIdTexts == {<<"1">>, <<"2">>, <<"1", "1">>, <<"2", "1">>}

\* f"Order {order_id}: Buyer={buyer}, ..., Returned={returned}"
generate_order(order_id) == <<"Order ">> \o order_id \o <<":", " Buyer=">>

\* needle in text, for two str
Contains(text, needle) ==
    \E k \in 0..(Len(text) - Len(needle)) :
        \A i \in 1..Len(needle) : text[k + i] = needle[i]

marker_without_colon(pid) == <<"Order ">> \o pid

\* f"Order {pid}:"
marker(pid) == <<"Order ">> \o pid \o <<":">>

\* parsed_ids = {o.get("orderId") for o in parsed_orders}
\* matching_raw = [r for r in raw_orders
\*                 if any(f"Order {pid}:" in r for pid in parsed_ids)]
matching_raw(parsed_ids, raw_orders) ==
    SelectSeq(raw_orders,
              LAMBDA r : \E pid \in parsed_ids : Contains(r, marker(pid)))

RECURSIVE IdLists(_)
IdLists(n) ==
    IF n = 0 THEN {<<>>}
    ELSE {Append(l, id) : l \in IdLists(n - 1), id \in OrderIdTexts}

\* sc_in: the order ids of allRawRecords, in order, and the orderIds of a
\* non-empty parsed chunk
MatchInit ==
    /\ PipelineIdle
    /\ dq = EmptyDLQ
    /\ dq_log = NoLog
    /\ \E n \in 0..MaxRaw, m \in 1..CHUNK_SIZE :
         sc_in \in [raw_ids : IdLists(n), chunk : IdLists(m)]
    /\ sc_out = None

\* validate_batch up to the prompt it builds
CallMatchingRaw ==
    /\ sc_out = None
    /\ LET raw_orders == [i \in 1..Len(sc_in.raw_ids) |->
                            generate_order(sc_in.raw_ids[i])]
       IN  sc_out' = Some([fn |-> "matching_raw",
                           res |-> matching_raw(Range(sc_in.chunk), raw_orders)])
    /\ UNCHANGED <<pipe, sc_in, dq, dq_log>>

MatchNext == CallMatchingRaw

MatchSpec == MatchInit /\ [][MatchNext]_vars

\* ================================================================ properties
\* an attempt that ended in failure: the call raised or the text is no JSON
Failure(o) == o.raises \/ o.content.t = "notjson"

\* a parse_batch_with_retry call that returned after attempts that all failed
Exhausted(t) == t.pc = "done" /\ t.calls >= 1 /\ Failure(t.outcome)

Invoking(tasks) == {i \in DOMAIN tasks : tasks[i].pc = "invoking"}
Holders(tasks) == {i \in DOMAIN tasks : tasks[i].holds}

\* C1: a parse_batch_with_retry call with max_retries N >= 1 whose attempts all
\* fail makes exactly N model calls and N-1 sleeps, the k-th of base_delay *
\* 2^(k-1), none after attempt N, and returns ([], error, N) with error not None.
C1_RetryLaw ==
    \A i \in DOMAIN ptask :
        LET t == ptask[i] IN
        /\ t.pc = "sleeping" => t.attempt < max_retries
        /\ (max_retries >= 1 /\ Exhausted(t)) =>
              /\ t.calls = max_retries
              /\ Len(t.sleeps) = max_retries - 1
              /\ \A k \in 1..Len(t.sleeps) : t.sleeps[k] = base_delay * 2^(k - 1)
              /\ t.orders = <<>>
              /\ t.error # None
              /\ t.attempts = max_retries

\* a call with max_retries = 3 that failed three times and slept d, 2d
C1_Witness ==
    \E i \in DOMAIN ptask :
        /\ max_retries = 3
        /\ Exhausted(ptask[i])
        /\ ptask[i].sleeps = <<base_delay, 2 * base_delay>>

\* C2: parse_batch_with_retry returns the first successful attempt's orders with
\* error None and that attempt's number, with no model call and no sleep after
\* it; if no attempt succeeds it returns ([], error of the last attempt,
\* max_retries).
C2_FirstSuccessOrLastError ==
    \A i \in DOMAIN ptask :
        LET t == ptask[i] IN
        (t.pc = "done" /\ t.calls >= 1) =>
            IF Failure(t.outcome)
            THEN /\ t.orders = <<>>
                 /\ t.error = parse_batch(t.outcome).error
                 /\ t.error # None
                 /\ t.attempts = max_retries
                 /\ t.calls = max_retries
            ELSE /\ t.orders = parse_batch(t.outcome).orders
                 /\ t.error = None
                 /\ t.attempts = t.calls
                 /\ t.attempts \in 1..max_retries
                 /\ Len(t.sleeps) = t.calls - 1

\* a call that succeeded at its second attempt out of three, and one that used
\* up its attempts
C2_Witness ==
    /\ max_retries = 3
    /\ \E i \in DOMAIN ptask :
        /\ ptask[i].pc = "done"
        /\ ptask[i].attempts = 2
        /\ ptask[i].error = None
        /\ ptask[i].orders # <<>>
    /\ \E i \in DOMAIN ptask : Exhausted(ptask[i])

\* C3: at most parse_limit model calls of the parse stage and at most
\* validate_limit model calls of the validate stage are in flight, each bound
\* kept by the semaphore of its own stage.
C3_ConcurrencyBound ==
    /\ Cardinality(Invoking(ptask)) <= parse_limit
    /\ Cardinality(Invoking(vtask)) <= validate_limit
    /\ pc = "parse_gather" => parse_sem = parse_limit - Cardinality(Invoking(ptask))
    /\ pc = "validate_gather" =>
            validate_sem = validate_limit - Cardinality(Invoking(vtask))

\* the validate gate is full (limit 1) and a second chunk waits for it, in a
\* run whose parse stage had a limit of 2
C3_Witness ==
    /\ validate_limit = 1
    /\ parse_limit = 2
    /\ \E j, k \in DOMAIN vtask : vtask[j].pc = "invoking" /\ vtask[k].pc = "ready"
    /\ \A i \in DOMAIN ptask : ptask[i].calls >= 1

\* C4: a chunk task holds a permit of the parse gate exactly while its model
\* call is in flight, never during a backoff sleep: the permit is given back
\* when the attempt ends and taken anew by the next attempt.
C4_NoPermitWhileSleeping ==
    /\ \A i \in DOMAIN ptask :
        /\ ptask[i].pc = "sleeping" => ~ptask[i].holds
        /\ ptask[i].holds <=> ptask[i].pc = "invoking"
    /\ pc = "parse_gather" => parse_sem + Cardinality(Holders(ptask)) = parse_limit

\* with a single permit, one chunk sleeps while another chunk's call is in flight
C4_Witness ==
    /\ parse_limit = 1
    /\ \E i, k \in DOMAIN ptask :
        /\ ptask[i].pc = "sleeping"
        /\ ptask[k].pc = "invoking"
        /\ ptask[k].holds

\* C5: no validate_batch task exists, and no judge call has been issued, while
\* a parse chunk task is still running, waiting or sleeping.
C5_StagesSequential ==
    (\E i \in DOMAIN ptask : ptask[i].pc # "done") =>
        /\ DOMAIN vtask = {}
        /\ pc = "parse_gather"

\* a judge call in flight after a parse stage of two chunks, one of which retried
C5_Witness ==
    /\ \E j \in DOMAIN vtask : vtask[j].pc = "invoking"
    /\ \E i \in DOMAIN ptask : Len(ptask[i].sleeps) >= 1
    /\ Cardinality(DOMAIN ptask) >= 2

AfterParse == pc \in {"validate", "validate_gather", "finalize", "main", "done"}
AfterValidate == pc \in {"finalize", "main", "done"}

\* C6: once the parse stage has merged, every batch whose attempts all failed
\* has a FailedBatch in the dead-letter queue, whatever ended its last attempt
\* (text that is no JSON, an exception, a timeout with an empty message).
C6_ExhaustedBatchDeadLettered ==
    AfterParse =>
        \A i \in DOMAIN ptask :
            Exhausted(ptask[i]) =>
                \E k \in 1..Len(dlq.failed_batches) :
                    dlq.failed_batches[k].batch_index = i

\* C7: after the validate stage every parsed order is among the valid orders or
\* has a FailedRecord with its orderId, for every response of the judge.
C7_EveryParsedAccounted ==
    AfterValidate =>
        \A k \in 1..Len(parsed_orders) :
            \/ parsed_orders[k] \in Range(valid_orders)
            \/ \E f \in 1..Len(dlq.failed_records) :
                    dlq.failed_records[f].orderId = parsed_orders[k]

\* the AgentResult of a run that fetched nothing and did nothing
EmptyResult ==
    [raw_store |-> <<>>, valid_orders |-> <<>>, dlq |-> EmptyDLQ,
     meta |-> [total_raw |-> 0, total_parsed |-> 0, total_valid |-> 0,
               total_failed |-> 0]]

C9_FetchFailureReported ==
    (pc = "done" /\ fetch_outcome \in {"api_error", "other_error"}) =>
        /\ exit_code # 0
        /\ out_stream = "stderr:error"

\* a judge response that arrived and is no JSON
Unparseable(t) ==
    t.pc = "done" /\ t.calls >= 1 /\ ~t.outcome.raises /\ t.outcome.content.t = "notjson"

\* validate_batch rejected its whole chunk with the given reason, in chunk order
RejectedWith(t, reason) ==
    /\ t.valid = <<>>
    /\ Len(t.failed) = Len(t.chunk)
    /\ \A k \in 1..Len(t.chunk) :
        /\ t.failed[k].orderId = t.chunk[k]
        /\ t.failed[k].failureType = "mismatch"
        /\ t.failed[k].reason = reason

\* C10 (as amended): when the judge's response is no JSON, validate_batch
\* returns no valid order and one FailedRecord per record of the chunk, in chunk
\* order, with that record's orderId, failureType "mismatch" and the reason
\* "Validation response unparseable".
C10_UnparseableRejectsChunk ==
    \A j \in DOMAIN vtask :
        Unparseable(vtask[j]) => RejectedWith(vtask[j], "Validation response unparseable")

\* C10 as stated: the same with the reason "validation response unparseable"
C10_AsStated ==
    \A j \in DOMAIN vtask :
        Unparseable(vtask[j]) => RejectedWith(vtask[j], "validation response unparseable")

\* a chunk of two parsed orders whose judge response was no JSON
C10_Witness ==
    \E j \in DOMAIN vtask :
        /\ Unparseable(vtask[j])
        /\ Len(vtask[j].chunk) = 2
        /\ Len(vtask[j].failed) = 2

\* a judge call that was issued and came back, by exception or with a response
Judged(t) == t.pc = "done" /\ t.calls >= 1

\* C11: when the judge call of validate_batch raises, validate_batch returns
\* the whole chunk unchanged as valid orders and no failed record, and nothing
\* is raised into the run.
C11_RaisePassesThrough ==
    \A j \in DOMAIN vtask :
        (Judged(vtask[j]) /\ vtask[j].outcome.raises) =>
            /\ vtask[j].valid = vtask[j].chunk
            /\ vtask[j].failed = <<>>
            /\ pc # "raised"

\* a chunk of two parsed orders whose judge call raised
C11_Witness ==
    \E j \in DOMAIN vtask :
        /\ Judged(vtask[j])
        /\ vtask[j].outcome.raises
        /\ Len(vtask[j].chunk) = 2
        /\ vtask[j].valid = vtask[j].chunk

\* C12: whenever the judge call returned a response, every order validate_batch
\* returns as valid has its orderId in the response's valid list; a response
\* that cannot be processed never passes the chunk.
C12_ValidOnlyIfListed ==
    \A j \in DOMAIN vtask :
        (Judged(vtask[j]) /\ ~vtask[j].outcome.raises) =>
            Range(vtask[j].valid) \subseteq vtask[j].outcome.content.valid

\* C13: a chunk that fails for good does not abort its stage: when a stage has
\* merged, every chunk task of it has run and returned, and what each returned
\* (parsed orders; valid orders and failed records) is in the merged result.
C13_SiblingsMerged ==
    /\ AfterParse =>
          \A i \in DOMAIN ptask :
              /\ ptask[i].pc = "done"
              /\ max_retries >= 1 => ptask[i].calls >= 1
              /\ Range(ptask[i].orders) \subseteq Range(parsed_orders)
    /\ AfterValidate =>
          \A j \in DOMAIN vtask :
              /\ Judged(vtask[j])
              /\ Range(vtask[j].valid) \subseteq Range(valid_orders)
              /\ Range(vtask[j].failed) \subseteq Range(dlq.failed_records)

\* the first chunk used up its retries and is in the queue, the second one's
\* order is among the parsed orders and was judged
C13_Witness ==
    /\ AfterValidate
    /\ DOMAIN ptask = {0, 1}
    /\ Exhausted(ptask[0]) /\ Truthy(ptask[0].error)
    /\ Len(dlq.failed_batches) = 1
    /\ ptask[1].orders # <<>>
    /\ parsed_orders = ptask[1].orders
    /\ \E j \in DOMAIN vtask : Judged(vtask[j])

\* the concatenation f[0] \o ... \o f[n-1]
RECURSIVE ConcatByIndex(_, _)
ConcatByIndex(f, n) == IF n = 0 THEN <<>> ELSE ConcatByIndex(f, n - 1) \o f[n - 1]

\* the chunks whose error the merge takes for one, in ascending order
FailedIndices == SortedSeq({i \in DOMAIN ptask : Truthy(ptask[i].error)})

\* C14: what a stage merges is determined by what each chunk returned, by
\* chunk index and whatever the order in which the tasks returned: the parsed
\* orders are the chunks' orders concatenated by ascending index, the failed
\* batches are in ascending batch index, the valid orders and the failed
\* records are the chunks' concatenated by ascending index.
C14_MergeByIndex ==
    /\ AfterParse =>
          /\ parsed_orders =
                ConcatByIndex([i \in DOMAIN ptask |-> ptask[i].orders],
                              Cardinality(DOMAIN ptask))
          /\ [k \in 1..Len(dlq.failed_batches) |-> dlq.failed_batches[k].batch_index]
                = FailedIndices
    /\ AfterValidate =>
          /\ valid_orders =
                ConcatByIndex([j \in DOMAIN vtask |-> vtask[j].valid],
                              Cardinality(DOMAIN vtask))
          /\ dlq.failed_records =
                ConcatByIndex([j \in DOMAIN vtask |-> vtask[j].failed],
                              Cardinality(DOMAIN vtask))

\* in both stages the second chunk returned before the first, and both
\* contributed to the merged lists
C14_Witness ==
    /\ AfterValidate
    /\ DOMAIN ptask = {0, 1} /\ ptask[1].after = 0 /\ ptask[0].after = 1
    /\ DOMAIN vtask = {0, 1} /\ vtask[1].after = 0 /\ vtask[0].after = 1
    /\ parsed_orders = <<1, 2, 3>>
    /\ valid_orders = <<1, 3>>
    /\ Len(dlq.failed_records) = 2

\* raw[i*size : (i+1)*size]
RawChunk(raw, i, size) ==
    [k \in 1..Min(size, Len(raw) - i * size) |-> raw[i * size + k]]

\* C15: every FailedBatch of the queue has the index i of a chunk, the raw
\* records raw[i*size : (i+1)*size], the error of that chunk's last attempt and
\* the number of attempts made for it; no index occurs twice.
C15_FailedBatchDescribesChunk ==
    \A k \in 1..Len(dlq.failed_batches) :
        LET b == dlq.failed_batches[k] IN
        /\ b.batch_index \in DOMAIN ptask
        /\ b.raw_orders = RawChunk(raw_store[1], b.batch_index, CHUNK_SIZE)
        /\ Failure(ptask[b.batch_index].outcome)
        /\ Some(b.error) = IF ptask[b.batch_index].outcome.raises
                            THEN Some(ptask[b.batch_index].outcome.msg)
                            ELSE Some(JSON_ERROR)
        /\ b.attempts = ptask[b.batch_index].calls
        /\ \A m \in 1..Len(dlq.failed_batches) :
                dlq.failed_batches[m].batch_index = b.batch_index => m = k

\* the first chunk parsed, the second (one raw record) failed three times
C15_Witness ==
    /\ Len(dlq.failed_batches) = 1
    /\ dlq.failed_batches[1].batch_index = 1
    /\ dlq.failed_batches[1].raw_orders = <<3>>
    /\ dlq.failed_batches[1].attempts = 3
    /\ ptask[0].error = None

IsPrefix(a, b) == Len(a) <= Len(b) /\ \A k \in 1..Len(a) : a[k] = b[k]

\* the FailedBatch entries the parse stage wrote, from what its tasks returned
ParseStageBatches ==
    IF DOMAIN ptask = {} THEN <<>>
    ELSE [k \in 1..Len(FailedIndices) |->
            LET i == FailedIndices[k]
            IN  FailedBatch(i, RawChunk(raw_store[1], i, CHUNK_SIZE),
                            ptask[i].error[1], ptask[i].attempts)]

\* C17: at every step of a run the failed batches and the failed records of
\* the dead-letter queue have their earlier value as a prefix, and the queue of
\* the AgentResult holds the parse stage's FailedBatch entries, unchanged and in
\* order, together with the failed records of the validate stage.
C17_QueueOnlyGrows ==
    /\ [][/\ IsPrefix(dlq.failed_batches, dlq'.failed_batches)
          /\ IsPrefix(dlq.failed_records, dlq'.failed_records)]_vars
    /\ [](result # NoResult =>
            /\ result[1].dlq.failed_batches = ParseStageBatches
            /\ result[1].dlq.failed_records =
                    ConcatByIndex([j \in DOMAIN vtask |-> vtask[j].failed],
                                  Cardinality(DOMAIN vtask)))

\* a finished run whose result holds a failed batch of the parse stage and a
\* failed record of the validate stage
C17_Witness ==
    /\ pc = "done"
    /\ result # NoResult
    /\ Len(result[1].dlq.failed_batches) = 1
    /\ result[1].dlq.failed_batches[1].batch_index = 0
    /\ Len(result[1].dlq.failed_records) >= 1

\* C16: after any sequence of appends total_failures is the number of raw
\* records of all failed batches plus the number of failed records, as they
\* were passed in; every read gives the value of the queue as it is then, so
\* a read after an append that added orders differs from a read before it.
C16_TotalFailuresIsCurrent ==
    /\ total_failures(dq) = dq_log.added
    /\ dq_log.read = dq_log.read_added
    /\ dq_log.read <= total_failures(dq)

\* 2 failed batches of 5 records each and 3 failed records: 13 is read, after
\* an earlier value had been read
C16_Witness ==
    /\ Len(dq.failed_batches) = 2
    /\ \A k \in 1..2 : Len(dq.failed_batches[k].raw_orders) = 5
    /\ Len(dq.failed_records) = 3
    /\ dq_log.read = 13
    /\ total_failures(dq) = 13

\* parse_batch returned, or raised, for the outcome sc_in
ParseBatchCalled == sc_out # None /\ sc_out[1].fn = "parse_batch"

\* validate_schema returned, or raised, for the data of sc_in
ValidateSchemaCalled == sc_out # None /\ sc_out[1].fn = "validate_schema"

\* C18: parse_batch never raises: for every outcome of the model call, of the
\* JSON extraction and of the schema validation it returns (orders, error);
\* text that is no JSON gives ([], "Failed to parse LLM response as JSON") and
\* an exception of the call gives ([], its message).
C18_ParseBatchNeverRaises ==
    ParseBatchCalled =>
        LET r == sc_out[1].res IN
        /\ ~r.raised
        /\ r.error # None => r.orders = <<>>
        /\ sc_in.raises => r.orders = <<>> /\ r.error = Some(sc_in.msg)
        /\ (~sc_in.raises /\ sc_in.content.t = "notjson") =>
                r.orders = <<>> /\ r.error = Some("Failed to parse LLM response as JSON")

\* the response "not json"
C18_Witness ==
    /\ ParseBatchCalled
    /\ ~sc_in.raises /\ sc_in.content.t = "notjson"
    /\ sc_out[1].res.error = Some(JSON_ERROR)

\* C19: for an "orders" list of n elements of any shapes validate_schema does
\* not raise and returns v orders and e messages with v + e = n, the orders
\* being the conforming elements in their order.
C19_ElementsIndependent ==
    (ValidateSchemaCalled /\ sc_in.content.t = "object") =>
        LET r == sc_out[1].res IN
        /\ ~r.raised
        /\ Len(r.orders) + Len(r.errors) = Len(sc_in.content.orders)
        /\ r.orders = SelectSeq(sc_in.content.orders, order_model_validate)

UpperLetters == {"O", "H", "I"}

\* the ParsedOrder invariants
ParsedOrderInvariant(o) ==
    /\ o.id_form = "digits"
    /\ Len(o.state) = 2 /\ \A k \in 1..Len(o.state) : o.state[k] \in UpperLetters
    /\ o.total > 0
    /\ o.items # <<>>
    /\ \A k \in 1..Len(o.items) : o.items[k] >= 10 /\ o.items[k] <= 50

\* C20: every order validate_schema returns as valid has an orderId that is a
\* nonempty string of digits, a state of two upper-case letters, total > 0 and
\* at least one item, every rating within 1.0 .. 5.0.
C20_ValidOrdersWellFormed ==
    (ValidateSchemaCalled /\ ~sc_out[1].res.raised) =>
        \A k \in 1..Len(sc_out[1].res.orders) :
            ParsedOrderInvariant(sc_out[1].res.orders[k])

\* the last response of a parse task is JSON with an element Order rejects
SchemaRejected(t) ==
    /\ t.pc = "done" /\ t.calls >= 1
    /\ ~t.outcome.raises /\ t.outcome.content.t = "object"
    /\ \E k \in 1..Len(t.outcome.content.orders) :
            ~order_model_validate(t.outcome.content.orders[k])

\* C21: a batch whose response is JSON but fails schema validation, in some or
\* all of its elements, is a batch error: the call returns an error for it and,
\* once the parse stage has merged, it has a FailedBatch in the queue.
C21_SchemaFailureIsBatchError ==
    \A i \in DOMAIN ptask :
        SchemaRejected(ptask[i]) =>
            /\ ptask[i].error # None
            /\ AfterParse => \E k \in 1..Len(dlq.failed_batches) :
                                dlq.failed_batches[k].batch_index = i

\* C22: a run goes through fetch, parse, validate and done in this order, each
\* once: the fetch collaborator is called once, no parse task exists before the
\* fetch is over, no validate task before the parse stage is over, no result
\* before the validate stage is over, and a finished run has its AgentResult.
C22_LinearRun ==
    /\ fetch_calls = (IF pc = "fetch" THEN 0 ELSE 1)
    /\ pc = "fetch" => raw_store = None /\ DOMAIN ptask = {}
    /\ pc \in {"fetch", "parse", "parse_gather"} => DOMAIN vtask = {}
    /\ pc \in {"fetch", "parse", "parse_gather", "validate", "validate_gather",
               "finalize"} => result = NoResult
    /\ pc \in {"main", "done"} => result # NoResult

\* C23: however the fetch or a model call fails, no exception leaves a stage:
\* the run reaches its end with an AgentResult.
C23_NoExceptionLeavesStage ==
    /\ pc # "raised"
    /\ pc = "done" => result # NoResult /\ out_stream = "stdout:result"

\* the fraction r is the number n / d
FractionIs(r, n, d) == r[1] * d = n * r[2]

\* C24: the metadata of an AgentResult counts that result: total_raw its raw
\* records, total_parsed the merged parsed orders, total_valid its valid
\* orders, total_failed the total_failures of its queue; success_rate is
\* total_valid / total_raw, and 1.0 when total_raw = 0.
C24_MetaIsSnapshot ==
    result # NoResult =>
        LET r == result[1] IN
        /\ r.meta.total_raw = Len(r.raw_store)
        /\ r.meta.total_raw = (IF raw_store = None THEN 0 ELSE Len(raw_store[1]))
        /\ r.meta.total_parsed = Len(parsed_orders)
        /\ r.meta.total_valid = Len(r.valid_orders)
        /\ r.meta.total_failed = total_failures(r.dlq)
        /\ IF Len(r.raw_store) = 0
           THEN FractionIs(success_rate(r.meta), 1, 1)
           ELSE FractionIs(success_rate(r.meta), Len(r.valid_orders), Len(r.raw_store))

\* three raw records, all parsed, two valid and one failed record
C24_Witness ==
    /\ pc = "done"
    /\ result # NoResult
    /\ result[1].meta = [total_raw |-> 3, total_parsed |-> 3, total_valid |-> 2,
                         total_failed |-> 1]
    /\ success_rate(result[1].meta) = <<2, 3>>

\* validate_batch returned for the parsed chunk of sc_in
ValidateBatchCalled == sc_out # None /\ sc_out[1].fn = "validate_batch"

\* the anchors of raw record id: what its text says, by the fixed patterns
extractAnchors(id) ==
    [orderId |-> id, total |-> 500, state |-> <<"O", "H">>, returned |-> FALSE]

upper(c) == CASE c = "o" -> "O" [] c = "h" -> "H" [] OTHER -> c

\* the fields in which a parsed order disagrees with an anchor: orderId, total
\* beyond a cent, state compared in upper case, returned
validateOrder(parsed, anchor) ==
    SelectSeq(<<"orderId", "total", "state", "returned">>,
        LAMBDA f :
            CASE f = "orderId" ->
                    ~(parsed.id_form = "digits" /\ parsed.orderId = anchor.orderId)
              [] f = "total" ->
                    parsed.total - anchor.total > 1 \/ anchor.total - parsed.total > 1
              [] f = "state" ->
                    [k \in 1..Len(parsed.state) |-> upper(parsed.state[k])] # anchor.state
              [] f = "returned" -> parsed.returned # anchor.returned)

\* C25: a parsed order is accepted exactly when it agrees with the anchors of
\* its raw record: validate_batch returns it as valid if and only if its
\* orderId and returned flag are the anchor's, its total is within 0.01 of the
\* anchor's and its state in upper case is the anchor's.
C25_ValidIffAnchorsAgree ==
    ValidateBatchCalled =>
        \A k \in 1..Len(sc_out[1].res.parsed) :
            LET o == sc_out[1].res.parsed[k]
            IN  (o \in Range(sc_out[1].res.valid))
                    <=> (validateOrder(o, extractAnchors(k)) = <<>>)

\* get_batch and total_batches cut the list raw into ceil(n/s) chunks of size s
IsPartition(raw, s) ==
    LET n == Len(raw)
        c == total_batches(raw, s)
        chunk(i) == get_batch(raw, i, s)
    IN  /\ c * s >= n /\ (c - 1) * s < n
        /\ \A i \in 0..(c - 1) :
              /\ chunk(i) = RawChunk(raw, i, s)
              /\ i < c - 1 => Len(chunk(i)) = s
              /\ i = c - 1 => Len(chunk(i)) >= 1 /\ Len(chunk(i)) <= s
        /\ ConcatByIndex([i \in 0..(c - 1) |-> chunk(i)], c) = raw

\* C26: for n raw records and a chunk size s >= 1 there are ceil(n/s) chunks,
\* chunk i is raw[i*s : (i+1)*s], all of s records but the last, which has 1..s,
\* and together they are the raw list; the parse stage launches one task per
\* chunk of the configured size, and none, with no model call, for n = 0.
C26_ChunksPartitionRaw ==
    (raw_store # None /\ pc \notin {"fetch", "parse"}) =>
        LET raw == raw_store[1] IN
        /\ \A s \in 1..(Len(raw) + 1) : IsPartition(raw, s)
        /\ DOMAIN ptask = {i \in 0..Len(raw) : i * CHUNK_SIZE < Len(raw)}
        /\ raw = <<>> => DOMAIN ptask = {} /\ DOMAIN vtask = {}

\* three raw records in chunks of two: a full chunk and a last one of one
\* record, a task for each
C26_Witness ==
    /\ pc = "parse_gather"
    /\ Len(raw_store[1]) = 3
    /\ DOMAIN ptask = {0, 1}
    /\ get_batch(raw_store[1], 0, CHUNK_SIZE) = <<1, 2>>
    /\ get_batch(raw_store[1], 1, CHUNK_SIZE) = <<3>>

\* C27: the validate stage cuts the merged parsed orders, not the raw records,
\* into chunks of the parse stage's chunk size and makes one model call per
\* chunk, never a second one whatever the first gave; with no parsed order it
\* makes no call.
C27_OneJudgeCallPerChunk ==
    /\ \A j \in DOMAIN vtask :
          /\ vtask[j].chunk = RawChunk(parsed_orders, j, CHUNK_SIZE)
          /\ vtask[j].chunk # <<>>
          /\ vtask[j].calls <= 1
          /\ vtask[j].pc \in {"invoking", "done"} <=> vtask[j].calls = 1
    /\ pc \in {"validate_gather", "finalize", "main", "done"} =>
          IF Truthy(error)
          THEN DOMAIN vtask = {}
          ELSE DOMAIN vtask = {j \in 0..Len(parsed_orders) :
                                    j * CHUNK_SIZE < Len(parsed_orders)}

\* two of three raw records were parsed: one chunk of the two parsed orders,
\* not of the raw records, judged by one call that raised
C27_Witness ==
    /\ AfterValidate
    /\ parsed_orders = <<1, 3>>
    /\ raw_store = Some(<<1, 2, 3>>)
    /\ DOMAIN vtask = {0}
    /\ vtask[0].chunk = <<1, 3>>
    /\ vtask[0].calls = 1 /\ vtask[0].outcome.raises

\* C28: every attempt of parse_batch makes one model call: the calls made for
\* a chunk are its attempts so far, the attempt count it reports once it has
\* returned, and the calls of the whole stage are at most chunks * max_retries.
C28_OneCallPerAttempt ==
    /\ \A i \in DOMAIN ptask :
          /\ ptask[i].pc \in {"invoking", "sleeping"} => ptask[i].calls = ptask[i].attempt
          /\ ptask[i].pc = "ready" => ptask[i].calls = ptask[i].attempt - 1
          /\ ptask[i].pc = "done" => ptask[i].calls = ptask[i].attempts
          /\ ptask[i].calls <= max_retries
    /\ SumSeq([k \in 1..Cardinality(DOMAIN ptask) |-> ptask[k - 1].calls])
            <= Cardinality(DOMAIN ptask) * max_retries

\* two chunks with max_retries = 3: one reported three attempts, the other
\* one, and four model calls were made
C28_Witness ==
    /\ AfterParse
    /\ max_retries = 3
    /\ DOMAIN ptask = {0, 1}
    /\ ptask[0].attempts = 3 /\ ptask[0].calls = 3
    /\ ptask[1].attempts = 1 /\ ptask[1].calls = 1

\* C29: when the top level of the JSON is not the expected one ("orders" is
\* missing or no list, or the value is no object) validate_schema returns no
\* order and exactly one error message, and does not raise.
C29_BadShapeIsOneError ==
    (ValidateSchemaCalled
        /\ sc_in.content.t \in {"object_no_orders", "object_orders_notlist", "array"}) =>
        /\ ~sc_out[1].res.raised
        /\ sc_out[1].res.orders = <<>>
        /\ Len(sc_out[1].res.errors) = 1

InParseStage == pc \in {"parse", "parse_gather"}
InValidateStage == pc \in {"validate", "validate_gather"}

\* C30: no step of the parse stage changes the raw store or the error flag,
\* and no step of the validate stage (or after it) changes the raw store, the
\* parsed orders or the failed batches, on the normal path and after a failed
\* fetch alike.
C30_StagesOnlyAdd ==
    [][/\ InParseStage => raw_store' = raw_store /\ error' = error
       /\ (InValidateStage \/ AfterValidate) =>
            /\ raw_store' = raw_store
            /\ error' = error
            /\ parsed_orders' = parsed_orders
            /\ dlq'.failed_batches = dlq.failed_batches]_vars

\* after both stages: the three raw records, the failed batch of the first
\* chunk and the parsed order of the second, with the validate stage's record
C30_Witness ==
    /\ AfterValidate
    /\ raw_store = Some(<<1, 2, 3>>)
    /\ parsed_orders = <<3>>
    /\ Len(dlq.failed_batches) = 1
    /\ dlq.failed_batches[1].raw_orders = <<1, 2>>
    /\ Len(dlq.failed_records) = 1
    /\ valid_orders = <<>>

\* C31: validate_batch splits its chunk in two disjoint parts: whatever the
\* judge answers, also with one orderId under both "valid" and "invalid", no
\* order it returns as valid has a FailedRecord with its orderId.
C31_ValidAndFailedDisjoint ==
    \A j \in DOMAIN vtask :
        Judged(vtask[j]) =>
            \A k \in 1..Len(vtask[j].valid) :
                \A f \in 1..Len(vtask[j].failed) :
                    vtask[j].failed[f].orderId # vtask[j].valid[k]

\* C32: a record-level failure of each kind can be recorded:
\* add_record_failure never raises, for "dropped" as for "mismatch" and
\* "hallucinated" (every call appends its FailedRecord).
C32_EveryKindIsRecorded ==
    ~dq_log.raised

\* the raw records of the orders of the chunk, in their original order
RecordsOfChunk(raw_ids, chunk) ==
    LET kept == SelectSeq(raw_ids, LAMBDA id : id \in Range(chunk))
    IN  [i \in 1..Len(kept) |-> generate_order(kept[i])]

\* C33: the raw records sent to the judge for a chunk are exactly the records
\* of the orders present in the chunk, in their original order: none of an
\* absent order is included, none of a present order is left out.
C33_JudgeSeesTheChunksRecords ==
    \A k \in 1..Len(sc_out) :
        sc_out[k].fn = "matching_raw" =>
            sc_out[k].res = RecordsOfChunk(sc_in.raw_ids, sc_in.chunk)

\* raw has orders 1, 11 and 21 and the chunk holds order 1 and an order that
\* has no raw record: the record of order 1 alone is sent
C33_Witness ==
    /\ sc_out # None
    /\ sc_out[1].fn = "matching_raw"
    /\ sc_in.raw_ids = <<(<<"1", "1">>), (<<"1">>), (<<"2", "1">>)>>
    /\ sc_in.chunk = <<(<<"2">>), (<<"1">>)>>
    /\ sc_out[1].res = <<generate_order(<<"1">>)>>

\* a parse_batch_with_retry call that returned with no successful attempt
NoAttemptSucceeded(t) ==
    t.pc = "done" /\ (t.calls = 0 \/ Failure(t.outcome))

\* C34: a parse_batch_with_retry call that returns a null error made at least
\* one attempt and its last attempt succeeded; for every max_retries (0
\* included) a call with no successful attempt returns a non-null error and
\* its batch is dead-lettered by the parse stage.
C34_NullErrorMeansSuccess ==
    \A i \in DOMAIN ptask :
        /\ (ptask[i].pc = "done" /\ ptask[i].error = None) =>
              (ptask[i].calls >= 1 /\ ~Failure(ptask[i].outcome))
        /\ NoAttemptSucceeded(ptask[i]) => ptask[i].error # None
        /\ (AfterParse /\ NoAttemptSucceeded(ptask[i]) /\ max_retries < 1) =>
              \E b \in 1..Len(dlq.failed_batches) :
                  dlq.failed_batches[b].batch_index = i

\* C35: the validate stage never returns more valid orders than the parsed
\* records it was given, and every valid order is a parsed record of its
\* chunk, for every judge response and on the pass-through path; so in every
\* AgentResult total_valid <= total_parsed.
C35_ValidAmongParsed ==
    /\ \A j \in DOMAIN vtask :
          vtask[j].pc = "done" =>
              /\ Len(vtask[j].valid) <= Len(vtask[j].chunk)
              /\ Range(vtask[j].valid) \subseteq Range(vtask[j].chunk)
    /\ AfterValidate =>
          /\ Len(valid_orders) <= Len(parsed_orders)
          /\ Range(valid_orders) \subseteq Range(parsed_orders)
    /\ result # NoResult =>
          result[1].meta.total_valid <= result[1].meta.total_parsed

\* the judge listed an order 0 next to the two orders of the first chunk and
\* rejected the order of the second: two valid orders of three parsed
C35_Witness ==
    /\ pc = "done"
    /\ result # NoResult
    /\ parsed_orders = <<1, 2, 3>>
    /\ result[1].valid_orders = <<1, 2>>
    /\ result[1].meta.total_parsed = 3
    /\ result[1].meta.total_valid = 2
    /\ ~vtask[0].outcome.raises
    /\ vtask[0].outcome.content.valid = {0, 1, 2}

\* every permit of both gates is back: no task holds one, no call is in flight
AllPermitsReleased(tasks, sem, limit) ==
    /\ Holders(tasks) = {}
    /\ Invoking(tasks) = {}
    /\ (DOMAIN tasks # {} => sem = limit)

\* the permits held at a gate are within 0..capacity
PermitsWithinCapacity ==
    /\ Cardinality(Holders(ptask)) \in 0..parse_limit
    /\ Cardinality(Holders(vtask)) \in 0..validate_limit
    /\ parse_sem \in 0..parse_limit
    /\ validate_sem \in 0..validate_limit

\* C36: with model invocations that return or throw and limits of at least 1,
\* every run terminates in the done state with an AgentResult, for any number
\* of chunks and any pattern of failures; when a stage has ended every permit
\* of its gate has been released, and the permits held stay within 0..capacity.
C36_TerminatesWithResult ==
    /\ <>(pc = "done" /\ result # NoResult)
    /\ [](pc = "done" => result # NoResult)
    /\ [](AfterParse => AllPermitsReleased(ptask, parse_sem, parse_limit))
    /\ [](AfterValidate => AllPermitsReleased(vtask, validate_sem, validate_limit))
    /\ []PermitsWithinCapacity

\* the part of C36 that the run with a fetch exception leaves standing
Terminates ==
    /\ <>(pc = "done")
    /\ [](AfterParse => AllPermitsReleased(ptask, parse_sem, parse_limit))
    /\ [](AfterValidate => AllPermitsReleased(vtask, validate_sem, validate_limit))
    /\ []PermitsWithinCapacity
    /\ [](pc = "done" /\ fetch_outcome # "other_error" => result # NoResult)

====
